---- MODULE Spec2Model ----
(***************************************************************************)
(* Saliency-map explanation algorithms of openvino_xai:                    *)
(*   - the RISE black-box aggregator (black_box_methods.py: RISE),         *)
(*   - the RISE mask generator in its two variants (RISE._generate_mask,   *)
(*     bicubic and clipped; RISEExplainer._generate_mask, bilinear),       *)
(*   - the two min-max normalisers,                                        *)
(*   - the white-box branch synthesizers (methods.py),                     *)
(*   - the auto explainer's dispatch (explain.py).                         *)
(* Tensors are sequences (1-based); a dimension of a shape is a natural    *)
(* number, or Dyn for a dynamic dimension.  Floating-point mask values are *)
(* kept in fixed point with MaskQ steps for the interval [0,1].            *)
(***************************************************************************)
EXTENDS Integers, Sequences, FiniteSets, TLC

\* ------------------------------------------------------------------ bounds
MaxSide == 2        \* input height and width range over 1..MaxSide
MaxCells == 2       \* num_cells ranges over 1..MaxCells
MaxSeed == 1        \* seeds range over 0..MaxSeed
MaxMasks == 2       \* num_masks ranges over 0..MaxMasks
MaxClasses == 3     \* the model's class count ranges over 1..MaxClasses
ProbQ == 2          \* prob ranges over 0/ProbQ .. ProbQ/ProbQ
MaskQ == 16         \* fixed-point steps of a mask value in [0,1]
MaxChannels == 2    \* backbone channels range over 1..MaxChannels
MaxFeat == 2        \* backbone feature height and width range over 1..MaxFeat
MaxScales == 2      \* detection heads range over 1..MaxScales
MaxAnchors == 2     \* anchors of a detection head range over 1..MaxAnchors
MaxMaps == 2        \* maps of a tensor to normalise range over 1..MaxMaps
MaxPixel == 3       \* pixels of a tensor to normalise range over 0..MaxPixel

\* ----------------------------------------------------------------- helpers
Clamp(v, lo, hi) == IF v < lo THEN lo ELSE IF v > hi THEN hi ELSE v

Min2(a, b) == IF a < b THEN a ELSE b

Max2(a, b) == IF a > b THEN a ELSE b

CeilDiv(a, b) == (a + b - 1) \div b

Cube(n) == n * n * n

RECURSIVE SumFn(_, _, _)
\* f[lo] + ... + f[hi]
SumFn(f, lo, hi) == IF lo > hi THEN 0 ELSE f[lo] + SumFn(f, lo + 1, hi)

RECURSIVE MinSeq(_)
MinSeq(s) == IF Len(s) = 1 THEN s[1] ELSE Min2(s[1], MinSeq(Tail(s)))

RECURSIVE MaxSeq(_)
MaxSeq(s) == IF Len(s) = 1 THEN s[1] ELSE Max2(s[1], MaxSeq(Tail(s)))

RECURSIVE Flatten(_)
\* the rows of a map, one after the other (ndarray.reshape to one axis)
Flatten(m) == IF m = <<>> THEN <<>> ELSE m[1] \o Flatten(Tail(m))

Rows(m) == Len(m)

Cols(m) == IF Len(m) = 0 THEN 0 ELSE Len(m[1])

Zeros(h, w) == [i \in 1..h |-> [j \in 1..w |-> 0]]

\* ------------------------------------------------- the seeded generator
\* np.random.default_rng(seed) is a deterministic stream fixed by its seed;
\* it is modelled by a full-period linear congruential generator.
RngMod == 64

RngMul == 37

RngInc == 11

default_rng(s) == s % RngMod

RngNext(g) == (g * RngMul + RngInc) % RngMod

RECURSIVE RngAfter(_, _)
\* the generator state after k draws
RngAfter(g, k) == IF k = 0 THEN g ELSE RngAfter(RngNext(g), k - 1)

\* Generator.random(): the k-th next draw, a value u/ProbQ in [0,1)
RngRandom(g, k) == (RngAfter(g, k) * ProbQ) \div RngMod

\* Generator.integers(0, high): the k-th next draw, in 0..high-1
RngIntegers(g, k, high) == (RngAfter(g, k) * high) \div RngMod

\* ------------------------------------------------------ cv2.resize
\* Coefficient k (0..3) of the bicubic kernel (A = -3/4) at the fraction
\* n/m, scaled by 4*m^3.
CubicCoeff(k, n, m) ==
    LET c0 == -3 * (Cube(n + m) - 5 * (n + m) * (n + m) * m
                    + 8 * (n + m) * m * m - 4 * Cube(m))
        c1 == 5 * Cube(n) - 9 * n * n * m + 4 * Cube(m)
        c2 == 5 * Cube(m - n) - 9 * (m - n) * (m - n) * m + 4 * Cube(m)
    IN  CASE k = 0 -> c0
          [] k = 1 -> c1
          [] k = 2 -> c2
          [] OTHER -> 4 * Cube(m) - c0 - c1 - c2

\* The common denominator of the weights along one axis of length dst.
AxisDen(kind, dst) == IF kind = "cubic" THEN 4 * Cube(2 * dst) ELSE 2 * dst

\* Weight of source index i (0-based) in destination index d (0-based) along
\* one axis: pixel centres are aligned ((d + 1/2) * src/dst - 1/2), taps
\* outside the source are replicated from the border.
AxisWeight(kind, src, dst, d, i) ==
    LET m == 2 * dst
        num == (2 * d + 1) * src - dst
        sx == num \div m
        n == num % m
    IN  IF kind = "cubic"
        THEN SumFn([k \in 0..3 |->
                      IF Clamp(sx - 1 + k, 0, src - 1) = i
                      THEN CubicCoeff(k, n, m) ELSE 0], 0, 3)
        ELSE (IF Clamp(sx, 0, src - 1) = i THEN m - n ELSE 0)
             + (IF Clamp(sx + 1, 0, src - 1) = i THEN n ELSE 0)

\* cv2.resize(grid, dsize): the result has `rows` rows and `cols` columns;
\* its values are numerators over AxisDen(kind, rows) * AxisDen(kind, cols).
Resize(kind, grid, rows, cols) ==
    LET src == Len(grid)
        wr == [r \in 1..rows |-> [i \in 1..src |->
                  AxisWeight(kind, src, rows, r - 1, i - 1)]]
        wc == [c \in 1..cols |-> [j \in 1..src |->
                  AxisWeight(kind, src, cols, c - 1, j - 1)]]
    IN  [r \in 1..rows |-> [c \in 1..cols |->
            SumFn([i \in 1..src |->
                     wr[r][i] * SumFn([j \in 1..src |-> wc[c][j] * grid[i][j]],
                                      1, src)], 1, src)]]

\* ------------------------------------------------- the mask generator
\* cell_size = np.ceil(np.array(input_size) / num_cells)
CellSize(size, cells) == <<CeilDiv(size[1], cells), CeilDiv(size[2], cells)>>

\* up_size = (num_cells + 1) * cell_size
UpSize(size, cells) ==
    <<(cells + 1) * CellSize(size, cells)[1], (cells + 1) * CellSize(size, cells)[2]>>

\* grid = (rand_generator.random((num_cells, num_cells)) < prob), row by row
DrawGrid(g, cells, p) ==
    [i \in 1..cells |-> [j \in 1..cells |->
        IF RngRandom(g, (i - 1) * cells + j) < p THEN 1 ELSE 0]]

\* a generator that draws the grid only
DrawsGridOnly(cells) == cells * cells

\* the number of draws one call of the mask generator takes
DrawsPerMask(cells) == cells * cells + 2

\* x = rand_generator.integers(0, cell_size[0])
ShiftX(g, size, cells) ==
    RngIntegers(g, cells * cells + 1, CellSize(size, cells)[1])

\* y = rand_generator.integers(0, cell_size[1])
ShiftY(g, size, cells) ==
    RngIntegers(g, cells * cells + 2, CellSize(size, cells)[2])

\* upsampled_mask = cv2.resize(grid, up_size, ...): dsize is (width, height),
\* so the result has up_size[1] rows and up_size[0] columns.
Upsampled(kind, g, size, cells, p) ==
    Resize(kind, DrawGrid(g, cells, p), UpSize(size, cells)[2], UpSize(size, cells)[1])

\* upsampled_mask[x : x + input_size[0], y : y + input_size[1]]: a slice stops
\* at the end of the array.
Crop(up, x, y, size) ==
    LET r1 == Min2(x + size[1], Rows(up))
        c1 == Min2(y + size[2], Cols(up))
    IN  [r \in 1..Max2(r1 - x, 0) |-> [c \in 1..Max2(c1 - y, 0) |-> up[x + r][y + c]]]

\* np.clip(mask, 0, 1) for the bicubic sampler; the bilinear one does not clip.
Clip(kind, v, den) == IF kind = "cubic" THEN Clamp(v, 0, den) ELSE v

\* a value v/den as a fixed-point number of MaskQ steps
Quantise(v, den) == (v * MaskQ) \div den

\* RISE._generate_mask (kind "cubic") and RISEExplainer._generate_mask (kind
\* "linear"): the mask returned for generator state g.
GenerateMask(kind, g, size, cells, p) ==
    LET up == Upsampled(kind, g, size, cells, p)
        den == AxisDen(kind, UpSize(size, cells)[2]) * AxisDen(kind, UpSize(size, cells)[1])
        cr == Crop(up, ShiftX(g, size, cells), ShiftY(g, size, cells), size)
    IN  [r \in 1..Rows(cr) |-> [c \in 1..Cols(cr) |->
            Quantise(Clip(kind, cr[r][c], den), den)]]

\* --------------------------------------------------- optional values
\* An optional value is <<>> (None) or <<v>>.
None == <<>>

Some(v) == <<v>>

IsNone(o) == o = <<>>

Get(o) == o[1]

\* ------------------------------------------------ numpy broadcasting
\* whether a dimension of length a broadcasts in place into one of length b
InPlaceDim(a, b) == a = b \/ a = 1

\* whether dimensions of lengths a and b broadcast against each other
BroadcastDim(a, b) == a = b \/ a = 1 \/ b = 1

\* index into a dimension of length a for position i of the broadcast result
BIdx(a, i) == IF a = 1 THEN 1 ELSE i

\* ------------------------------------------------------------ RISE
\* np.take(raw_scores, target_classes) raises IndexError for an index past
\* the end of the scores (classes are numbered from 1 here).
TakeFails(raw, targets) == \E t \in 1..Len(targets) : targets[t] > Len(raw)

\* scores.reshape(-1, 1, 1) * mask
ScoresTimesMask(scores, m) ==
    [t \in 1..Len(scores) |->
        [i \in 1..Rows(m) |-> [j \in 1..Cols(m) |-> scores[t] * m[i][j]]]]

\* RISE._get_scored_mask
get_scored_mask(raw, m, targets) ==
    IF ~IsNone(targets) /\ Get(targets) # <<>>
    THEN ScoresTimesMask([t \in 1..Len(Get(targets)) |-> raw[Get(targets)[t]]], m)
    ELSE ScoresTimesMask(raw, m)

\* whether `sal_maps += sal` is accepted: sal must broadcast to sal_maps' shape
AddFails(acc, h, w, sal) ==
    \/ ~InPlaceDim(Len(sal), Len(acc))
    \/ \E t \in 1..Len(sal) :
          ~InPlaceDim(Rows(sal[t]), h) \/ ~InPlaceDim(Cols(sal[t]), w)

\* sal_maps += sal
AddInPlace(acc, sal) ==
    [t \in 1..Len(acc) |->
        [i \in 1..Rows(acc[t]) |-> [j \in 1..Cols(acc[t]) |->
            acc[t][i][j]
            + sal[BIdx(Len(sal), t)][BIdx(Rows(sal[1]), i)][BIdx(Cols(sal[1]), j)]]]]

\* the scatter written with the dense index in place of the class index
ScatterRowDense(targets, i) == i

\* the row of the sparse tensor the dense row i is written to
ScatterRow(targets, i) == targets[i]

RECURSIVE ScatterFrom(_, _, _, _)
\* for i, sal in enumerate(sal_maps_tmp): sal_maps[target_classes[i]] = sal
ScatterFrom(out, dense, targets, i) ==
    IF i > Len(dense) THEN out
    ELSE ScatterFrom([out EXCEPT ![ScatterRow(targets, i)] = dense[i]], dense, targets, i + 1)

\* RISE._reconstruct_sparce_saliency_map
reconstruct_sparce_saliency_map(dense, classes, size, targets) ==
    ScatterFrom([c \in 1..classes |-> Zeros(size[1], size[2])], dense, targets, 1)

\* 255 * num / (d + 1e-12), truncated by the cast to uint8: the epsilon keeps
\* the quotient just below an exact integer, and makes 0/0 a 0.
ScaleEps(num, d) ==
    IF d = 0 THEN 0
    ELSE IF (255 * num) % d = 0 /\ num > 0 THEN (255 * num) \div d - 1
    ELSE (255 * num) \div d

\* RISE._normalize_saliency_maps: each map by its own minimum and maximum
RiseNormalize(maps) ==
    [t \in 1..Len(maps) |->
        LET flat == Flatten(maps[t])
            lo == MinSeq(flat)
            hi == MaxSeq(flat)
        IN  [i \in 1..Rows(maps[t]) |-> [j \in 1..Cols(maps[t]) |->
                ScaleEps(maps[t][i][j] - lo, hi - lo)]]]

\* the score vector of length n that the model and postprocess_fn return in
\* sampling iteration k: class c scores c - 1 + k
ScoreVector(n, k) == [c \in 1..n |-> c - 1 + k]

\* the lengths a sampling call may return when the discovery call returned n:
\* the same, shorter, longer, or 1
ReturnedLengths(n) == {1, n - 1, n, n + 1} \ {0}

\* ------------------------------------------------------------------ state
VARIABLES
    pc,               \* position in the operation under way
    kind,             \* "cubic": RISE, "linear": RISEExplainer
    input_size,       \* <<height, width>> of the model input
    num_cells,
    prob,             \* numerator over ProbQ
    seed,
    rand_generator,   \* state of the seeded generator
    masks,            \* the masks returned so far, oldest first
    target_classes,   \* None or Some(sequence of classes)
    num_masks,
    normalize,
    model_classes,    \* length of the score vector of the discovery call
    num_classes,
    num_targets,
    sal_maps,         \* the accumulator, then the result under construction
    sal_maps_tmp,     \* the dense accumulator handed to the reconstruction
    mask,
    raw_scores,
    sal,              \* the contribution of the iteration under way
    iter,             \* sampling iterations completed
    saliency_maps,    \* None or Some(tensor returned by run)
    error,            \* "" or what raised
    mismatch,         \* a sampling call returned a vector of another length
    log,              \* the steps taken, in order
    method,           \* the white-box synthesizer: "activationmap", "reciprocam", "detclassprob"
    backbone_shape,   \* output shape of the backbone node
    logit_shape,      \* output shape of the logit node
    ori_names,        \* friendly names of the original graph: [data, logits]
    ori_consumers,    \* the live branch nodes that read an output of the original graph
    clone_names,      \* friendly names of the clone, None before it exists
    chw,              \* None or Some(<<c, h, w>>) read from the backbone shape
    mosaic_feature_map_mask,
    mi,               \* loop index i of the mask loop
    mj,               \* loop index j of the mask loop
    head_nodes,       \* the head output nodes in the graph's op order: [name, shape]
    det_classes,      \* the detector's class count
    cls_head_output_node_names,
    num_anchors,
    saliency_map_size,
    cls_head_output_nodes,   \* [name, shape] of the nodes collected, then reshaped
    num_cls_out_channels,
    scale_idx,
    grouped,          \* [node, anchors] of every anchor grouping made
    out_shape,        \* None or Some(shape of the saliency output)
    norm_in,          \* the tensor handed to the normalisers
    norm_rise,        \* None or Some(result of RISE._normalize_saliency_maps)
    norm_expl,        \* None or Some(result of RISEExplainer._normalize_saliency_maps)
    has_xai,          \* XAIModel.has_xai(model)
    explain_method,   \* None or Some(the model's explain_method attribute)
    insert_ok,        \* whether insert_xai can augment the model
    target_explain_group,    \* None or Some(group)
    result            \* None or Some(the explanation returned)

maskVars == <<kind, input_size, num_cells, prob, seed, rand_generator, masks>>

paramVars == <<target_classes, num_masks, normalize, model_classes>>

riseVars == <<num_classes, num_targets, sal_maps, sal_maps_tmp, mask, raw_scores,
              sal, iter, saliency_maps, error, mismatch, log>>

wbVars == <<method, backbone_shape, logit_shape, ori_names, ori_consumers, clone_names, chw,
            mosaic_feature_map_mask, mi, mj, head_nodes, det_classes,
            cls_head_output_node_names, num_anchors, saliency_map_size,
            cls_head_output_nodes, num_cls_out_channels, scale_idx, grouped, out_shape>>

normVars == <<norm_in, norm_rise, norm_expl>>

autoVars == <<has_xai, explain_method, insert_ok, target_explain_group, result>>

\* the state of the operations a RISE run does not touch
idleVars == <<wbVars, normVars, autoVars>>

vars == <<pc, maskVars, paramVars, riseVars, wbVars, normVars, autoVars>>

Sizes == (1..MaxSide) \X (1..MaxSide)

Kinds == {"cubic", "linear"}

\* prob: float = 0.5, to the fixed-point step below it
DefaultProb == ProbQ \div 2

\* the sequences over 1..n of length at most 2
TargetLists(n) ==
    {<<>>} \cup {<<a>> : a \in 1..n} \cup {<<a, b>> : a \in 1..n, b \in 1..n}

RiseIdle ==
    /\ target_classes = None /\ num_masks = 0 /\ normalize = FALSE
    /\ model_classes = 0 /\ num_classes = 0 /\ num_targets = 0
    /\ sal_maps = <<>> /\ sal_maps_tmp = <<>> /\ mask = <<>> /\ raw_scores = <<>>
    /\ sal = <<>> /\ iter = 0 /\ saliency_maps = None /\ error = ""
    /\ mismatch = FALSE /\ log = <<>>

WbIdle ==
    /\ method = "" /\ backbone_shape = <<>> /\ logit_shape = <<>>
    /\ ori_names = <<>> /\ ori_consumers = {} /\ clone_names = None /\ chw = None
    /\ mosaic_feature_map_mask = <<>> /\ mi = 0 /\ mj = 0
    /\ head_nodes = <<>> /\ det_classes = 0 /\ cls_head_output_node_names = <<>>
    /\ num_anchors = <<>> /\ saliency_map_size = <<>> /\ cls_head_output_nodes = <<>>
    /\ num_cls_out_channels = 0 /\ scale_idx = 0 /\ grouped = <<>> /\ out_shape = None

NormIdle == norm_in = <<>> /\ norm_rise = None /\ norm_expl = None

AutoIdle ==
    /\ has_xai = FALSE /\ explain_method = None /\ insert_ok = FALSE
    /\ target_explain_group = None /\ result = None

\* ------------------------------------------------------------ RISE.run
Init ==
    /\ pc = "run"
    /\ kind = "cubic"
    /\ input_size \in Sizes
    /\ num_cells \in 1..MaxCells
    /\ prob = DefaultProb
    /\ seed \in 0..MaxSeed
    /\ rand_generator = 0
    /\ masks = <<>>
    /\ model_classes \in 1..MaxClasses
    /\ target_classes \in {None} \cup {Some(t) : t \in TargetLists(model_classes)}
    /\ num_masks \in 0..MaxMasks
    /\ normalize \in BOOLEAN
    /\ num_classes = 0 /\ num_targets = 0
    /\ sal_maps = <<>> /\ sal_maps_tmp = <<>> /\ mask = <<>> /\ raw_scores = <<>>
    /\ sal = <<>> /\ iter = 0 /\ saliency_maps = None /\ error = ""
    /\ mismatch = FALSE /\ log = <<>>
    /\ WbIdle /\ NormIdle /\ AutoIdle

Raise(what) == pc' = "error" /\ error' = what

\* data_preprocessed = preprocess_fn(data)
Preprocess ==
    /\ pc = "run"
    /\ pc' = "discover"
    /\ log' = Append(log, "preprocess")
    /\ UNCHANGED <<maskVars, paramVars, idleVars, num_classes, num_targets, sal_maps, sal_maps_tmp,
                   mask, raw_scores, sal, iter, saliency_maps, error, mismatch>>

\* the first inference, on the unmasked input, up to the zeroed accumulator
Discover ==
    /\ pc = "discover"
    /\ pc' = "loop"
    /\ log' = Append(log, "infer")
    /\ num_classes' = model_classes
    /\ num_targets' = IF IsNone(target_classes) THEN model_classes
                      ELSE Len(Get(target_classes))
    /\ rand_generator' = default_rng(seed)
    /\ sal_maps' = [t \in 1..num_targets' |-> Zeros(input_size[1], input_size[2])]
    /\ UNCHANGED <<kind, input_size, num_cells, prob, seed, masks, paramVars, idleVars,
                   sal_maps_tmp, mask, raw_scores, sal, iter, saliency_maps, error, mismatch>>

\* compiled_model raises: nothing catches it
InferenceFails ==
    /\ pc \in {"discover", "infer"}
    /\ Raise("inference")
    /\ log' = Append(log, "infer")
    /\ UNCHANGED <<maskVars, paramVars, idleVars, num_classes, num_targets, sal_maps, sal_maps_tmp,
                   mask, raw_scores, sal, iter, saliency_maps, mismatch>>

\* mask = cls._generate_mask(...); masked = mask * data_preprocessed
SampleMask ==
    /\ pc = "loop"
    /\ iter < num_masks
    /\ mask' = GenerateMask(kind, rand_generator, input_size, num_cells, prob)
    /\ rand_generator' = RngAfter(rand_generator, DrawsPerMask(num_cells))
    /\ masks' = Append(masks, mask')
    /\ log' = Append(log, "mask")
    /\ IF BroadcastDim(Rows(mask'), input_size[1]) /\ BroadcastDim(Cols(mask'), input_size[2])
       THEN pc' = "infer" /\ error' = error
       ELSE Raise("broadcast")
    /\ UNCHANGED <<kind, input_size, num_cells, prob, seed, paramVars, idleVars, num_classes,
                   num_targets, sal_maps, sal_maps_tmp, raw_scores, sal, iter,
                   saliency_maps, mismatch>>

\* raw_scores = postprocess_fn(compiled_model(masked))
Infer ==
    /\ pc = "infer"
    /\ \E n \in ReturnedLengths(num_classes) :
          /\ raw_scores' = ScoreVector(n, iter)
          /\ mismatch' = (mismatch \/ n # num_classes)
    /\ pc' = "score"
    /\ log' = Append(log, "infer")
    /\ UNCHANGED <<maskVars, paramVars, idleVars, num_classes, num_targets, sal_maps, sal_maps_tmp,
                   mask, sal, iter, saliency_maps, error>>

\* sal = cls._get_scored_mask(raw_scores, mask, target_classes)
ScoreMask ==
    /\ pc = "score"
    /\ IF ~IsNone(target_classes) /\ TakeFails(raw_scores, Get(target_classes))
       THEN Raise("index") /\ sal' = sal
       ELSE /\ sal' = get_scored_mask(raw_scores, mask, target_classes)
            /\ pc' = "accum" /\ error' = error
    /\ UNCHANGED <<maskVars, paramVars, idleVars, num_classes, num_targets, sal_maps, sal_maps_tmp,
                   mask, raw_scores, iter, saliency_maps, mismatch, log>>

\* sal_maps += sal
Accumulate ==
    /\ pc = "accum"
    /\ IF AddFails(sal_maps, input_size[1], input_size[2], sal)
       THEN Raise("broadcast") /\ UNCHANGED <<sal_maps, iter, log>>
       ELSE /\ sal_maps' = AddInPlace(sal_maps, sal)
            /\ iter' = iter + 1
            /\ log' = Append(log, "accum")
            /\ pc' = "loop" /\ error' = error
    /\ UNCHANGED <<maskVars, paramVars, idleVars, num_classes, num_targets, sal_maps_tmp,
                   mask, raw_scores, sal, saliency_maps, mismatch>>

\* the loop is over and target_classes is not None
Reconstruct ==
    /\ pc = "loop"
    /\ iter = num_masks
    /\ ~IsNone(target_classes)
    /\ sal_maps_tmp' = sal_maps
    /\ sal_maps' = reconstruct_sparce_saliency_map(sal_maps, num_classes, input_size,
                                                   Get(target_classes))
    /\ log' = Append(log, "reconstruct")
    /\ pc' = "returned"
    /\ UNCHANGED <<maskVars, paramVars, idleVars, num_classes, num_targets, mask, raw_scores, sal,
                   iter, saliency_maps, error, mismatch>>

\* the loop is over and target_classes is None
ReturnDense ==
    /\ pc = "loop"
    /\ iter = num_masks
    /\ IsNone(target_classes)
    /\ pc' = "returned"
    /\ UNCHANGED <<maskVars, paramVars, idleVars, riseVars>>

\* if normalize: saliency_maps = cls._normalize_saliency_maps(saliency_maps)
Normalize ==
    /\ pc = "returned"
    /\ normalize
    /\ sal_maps' = RiseNormalize(sal_maps)
    /\ log' = Append(log, "normalize")
    /\ pc' = "expand"
    /\ UNCHANGED <<maskVars, paramVars, idleVars, num_classes, num_targets, sal_maps_tmp, mask,
                   raw_scores, sal, iter, saliency_maps, error, mismatch>>

\* saliency_maps = np.expand_dims(saliency_maps, axis=0); return
ExpandDims ==
    /\ pc = "expand" \/ (pc = "returned" /\ ~normalize)
    /\ saliency_maps' = Some(<<sal_maps>>)
    /\ log' = Append(log, "expand")
    /\ pc' = "done"
    /\ UNCHANGED <<maskVars, paramVars, idleVars, num_classes, num_targets, sal_maps, sal_maps_tmp,
                   mask, raw_scores, sal, iter, error, mismatch>>

Next ==
    \/ Preprocess
    \/ Discover
    \/ InferenceFails
    \/ SampleMask
    \/ Infer
    \/ ScoreMask
    \/ Accumulate
    \/ Reconstruct
    \/ ReturnDense
    \/ Normalize
    \/ ExpandDims

Spec == Init /\ [][Next]_vars

\* ------------------------------------------- two calls of the generator
MaskInit ==
    /\ pc = "mask"
    /\ kind \in Kinds
    /\ input_size \in Sizes
    /\ num_cells \in 1..MaxCells
    /\ prob \in 0..ProbQ
    /\ seed \in 0..MaxSeed
    /\ rand_generator = default_rng(seed)
    /\ masks = <<>>
    /\ RiseIdle
    /\ WbIdle /\ NormIdle /\ AutoIdle

\* one call of _generate_mask on the shared generator
MaskCall ==
    /\ pc = "mask"
    /\ Len(masks) < MaxMasks
    /\ masks' = Append(masks, GenerateMask(kind, rand_generator, input_size, num_cells, prob))
    /\ rand_generator' = RngAfter(rand_generator, DrawsPerMask(num_cells))
    /\ UNCHANGED <<pc, kind, input_size, num_cells, prob, seed, paramVars, idleVars, riseVars>>

MaskNext == MaskCall

SpecMask == MaskInit /\ [][MaskNext]_vars

\* ------------------------------------------------- shapes of graph nodes
\* a dynamic dimension
Dyn == 0 - 1

RECURSIVE Product(_)
\* the number of elements of a static shape
Product(shape) == IF shape = <<>> THEN 1 ELSE shape[1] * Product(Tail(shape))

RemoveAt(s, i) == SubSeq(s, 1, i - 1) \o SubSeq(s, i + 1, Len(s))

\* output shape of reduce_mean / reduce_max over one axis (0-based)
ReduceShape(shape, axis, keep_dims) ==
    IF keep_dims THEN [shape EXCEPT ![axis + 1] = 1] ELSE RemoveAt(shape, axis + 1)

\* reduce_mean that keeps the reduced axis
ReduceMeanKeep(shape, axis) == ReduceShape(shape, axis, TRUE)

\* opset.reduce_mean(node, axes): keep_dims defaults to False
ReduceMeanDefault(shape, axis) == ReduceShape(shape, axis, FALSE)

\* opset.tile(node, repeats)
TileShape(shape, repeats) == [d \in 1..Len(shape) |-> shape[d] * repeats[d]]

\* opset.transpose(node, order), order 0-based
TransposeShape(shape, order) == [d \in 1..Len(order) |-> shape[order[d] + 1]]

\* opset.reshape(node, target, special_zero=False) is refused when the element
\* counts differ
ReshapeFails(shape, target) == Product(shape) # Product(target)

\* opset.concat(nodes, 0) of nodes of one shape
ConcatShape(shapes) == [shapes[1] EXCEPT ![1] = Len(shapes) * shapes[1][1]]

\* whether every dimension of a shape is static
IsStatic(shape) == \A d \in 1..Len(shape) : shape[d] # Dyn

\* -------------------------------------------------------- Recipro-CAM
\* the order of a column-major reshape
SpacialOrderColumns(h, w, i, j) == j * h + i

\* tmp = np.arange(h * w); spacial_order = np.reshape(tmp, (h, w)): the entry
\* at (i, j), both 0-based
SpacialOrder(h, w, i, j) == i * w + j

\* np.zeros((h * w, c, h, w))
MosaicZeros(c, h, w) == [k \in 1..(h * w) |-> [ch \in 1..c |-> Zeros(h, w)]]

\* mosaic_feature_map_mask[k, :, i, j] = np.ones((c)), k, i, j 0-based
MosaicSet(m, k, i, j) ==
    [m EXCEPT ![k + 1] = [ch \in 1..Len(m[k + 1]) |->
                              [m[k + 1][ch] EXCEPT ![i + 1][j + 1] = 1]]]

\* ------------------------------------------- the white-box synthesizers
BackboneShapes ==
    {<<1, c, h, w>> : c \in 1..MaxChannels, h \in 1..MaxFeat, w \in 1..MaxFeat}
    \cup {<<1, 1, Dyn, Dyn>>, <<1, 2, 2>>}

ScaleOrders(n) == {p \in [1..n -> 1..n] : \A i, j \in 1..n : i # j => p[i] # p[j]}

\* XAIMethodBase.__init__ has named the first parameter 'data_ori'
WbInit ==
    /\ pc = "branch"
    /\ method \in {"activationmap", "reciprocam"}
    /\ backbone_shape \in BackboneShapes
    /\ logit_shape \in {<<1, k>> : k \in 1..MaxClasses}
    /\ ori_names = [data |-> "data_ori", logits |-> "logits"]
    /\ ori_consumers = {}
    /\ clone_names = None /\ chw = None
    /\ mosaic_feature_map_mask = <<>> /\ mi = 0 /\ mj = 0
    /\ head_nodes = <<>> /\ det_classes = 0 /\ cls_head_output_node_names = <<>>
    /\ num_anchors = <<>> /\ saliency_map_size = <<>> /\ cls_head_output_nodes = <<>>
    /\ num_cls_out_channels = 0 /\ scale_idx = 0 /\ grouped = <<>> /\ out_shape = None

\* a detector with one head output per scale; the caller names the scales in an
\* order of its own and gives each scale's anchor count in that order
DetInit ==
    /\ pc = "branch"
    /\ method = "detclassprob"
    /\ det_classes \in 1..MaxClasses
    /\ \E n \in 1..MaxScales : \E a \in [1..n -> 1..MaxAnchors] : \E p \in ScaleOrders(n) :
          /\ head_nodes = [g \in 1..n |->
                             [name |-> g, shape |-> <<1, a[g] * det_classes, g, g>>]]
          /\ cls_head_output_node_names = [s \in 1..n |-> p[s]]
          /\ num_anchors = [s \in 1..n |-> a[p[s]]]
    /\ saliency_map_size \in Sizes
    /\ backbone_shape = <<>> /\ logit_shape = <<>>
    /\ ori_names = [data |-> "data_ori", logits |-> "logits"]
    /\ ori_consumers = {}
    /\ clone_names = None /\ chw = None
    /\ mosaic_feature_map_mask = <<>> /\ mi = 0 /\ mj = 0
    /\ cls_head_output_nodes = <<>>
    /\ num_cls_out_channels = 0 /\ scale_idx = 0 /\ grouped = <<>> /\ out_shape = None

WbSpecInit ==
    /\ WbInit \/ DetInit
    /\ kind = "" /\ input_size = <<>> /\ num_cells = 0 /\ prob = 0 /\ seed = 0
    /\ rand_generator = 0 /\ masks = <<>>
    /\ RiseIdle /\ NormIdle /\ AutoIdle

wbFrame == <<maskVars, paramVars, num_classes, num_targets, sal_maps, sal_maps_tmp, mask,
             raw_scores, sal, iter, saliency_maps, mismatch, log, normVars, autoVars>>

\* ActivationMapXAIMethod.generate_xai_branch
ActivationMap ==
    /\ pc = "branch"
    /\ method = "activationmap"
    /\ IF Len(backbone_shape) < 2
       THEN Raise("axis") /\ UNCHANGED <<out_shape, ori_consumers>>
       ELSE /\ out_shape' = Some(ReduceMeanDefault(backbone_shape, 1))
            /\ ori_consumers' = {[op |-> "reduce_mean", of |-> 0]}
            /\ pc' = "done" /\ error' = error
    /\ UNCHANGED <<wbFrame, method, backbone_shape, logit_shape, ori_names, clone_names, chw,
                   mosaic_feature_map_mask, mi, mj, head_nodes, det_classes,
                   cls_head_output_node_names, num_anchors, saliency_map_size,
                   cls_head_output_nodes, num_cls_out_channels, scale_idx, grouped>>

\* ReciproCAM, lines 55-65: the clone, the landmarks and their debug names
RcClone ==
    /\ pc = "branch"
    /\ method = "reciprocam"
    /\ clone_names' = Some([data |-> "data_clone", logits |-> "logits_clone"])
    /\ ori_names' = [ori_names EXCEPT !.logits = "logits_ori"]
    /\ pc' = "rc_shape"
    /\ UNCHANGED <<wbFrame, error, method, backbone_shape, logit_shape, ori_consumers, chw,
                   mosaic_feature_map_mask, mi, mj, head_nodes, det_classes,
                   cls_head_output_node_names, num_anchors, saliency_map_size,
                   cls_head_output_nodes, num_cls_out_channels, scale_idx, grouped, out_shape>>

\* lines 67-73: _, c, h, w = shape; get_length(); the tile of the original
\* backbone output; the zeroed mask
RcShape ==
    /\ pc = "rc_shape"
    /\ IF Len(backbone_shape) # 4
       THEN Raise("unpack") /\ UNCHANGED <<chw, mosaic_feature_map_mask, ori_consumers>>
       ELSE IF ~IsStatic(SubSeq(backbone_shape, 2, 4))
       THEN Raise("dynamic") /\ UNCHANGED <<chw, mosaic_feature_map_mask, ori_consumers>>
       ELSE /\ chw' = Some(SubSeq(backbone_shape, 2, 4))
            /\ ori_consumers' = {[op |-> "tile", of |-> 0]}
            /\ mosaic_feature_map_mask' =
                  MosaicZeros(backbone_shape[2], backbone_shape[3], backbone_shape[4])
            /\ pc' = "rc_mask" /\ error' = error
    /\ mi' = 0 /\ mj' = 0
    /\ UNCHANGED <<wbFrame, method, backbone_shape, logit_shape, ori_names, clone_names,
                   head_nodes, det_classes,
                   cls_head_output_node_names, num_anchors, saliency_map_size,
                   cls_head_output_nodes, num_cls_out_channels, scale_idx, grouped, out_shape>>

\* lines 74-77: one pass of the inner loop
RcMaskStep ==
    /\ pc = "rc_mask"
    /\ mi < Get(chw)[2]
    /\ mosaic_feature_map_mask' =
          MosaicSet(mosaic_feature_map_mask, SpacialOrder(Get(chw)[2], Get(chw)[3], mi, mj),
                    mi, mj)
    /\ IF mj + 1 < Get(chw)[3]
       THEN mj' = mj + 1 /\ mi' = mi
       ELSE mj' = 0 /\ mi' = mi + 1
    /\ UNCHANGED <<wbFrame, pc, error, method, backbone_shape, logit_shape, ori_names,
                   ori_consumers,
                   clone_names, chw, head_nodes, det_classes,
                   cls_head_output_node_names, num_anchors, saliency_map_size,
                   cls_head_output_nodes, num_cls_out_channels, scale_idx, grouped, out_shape>>

\* lines 78-88: multiply, rewire the clone's head, transpose and reshape the
\* clone's logits (h * w rows of num_classes scores)
RcBranch ==
    /\ pc = "rc_mask"
    /\ mi = Get(chw)[2]
    /\ LET h == Get(chw)[2]
           w == Get(chw)[3]
           tiled == TileShape(backbone_shape, <<h * w, 1, 1, 1>>)
           prediction == <<tiled[1], logit_shape[2]>>
           tmp == TransposeShape(prediction, <<1, 0>>)
           target == <<1, logit_shape[2], h, w>>
       IN  IF ReshapeFails(tmp, target)
           THEN Raise("reshape") /\ out_shape' = out_shape
           ELSE out_shape' = Some(target) /\ pc' = "done" /\ error' = error
    /\ UNCHANGED <<wbFrame, method, backbone_shape, logit_shape, ori_names, ori_consumers,
                   clone_names, chw,
                   mosaic_feature_map_mask, mi, mj, head_nodes, det_classes,
                   cls_head_output_node_names, num_anchors, saliency_map_size,
                   cls_head_output_nodes, num_cls_out_channels, scale_idx, grouped>>

\* ------------------------------------------- DetClassProbabilityMap
Range(f) == {f[x] : x \in DOMAIN f}

\* lines 102-105: the ops of the graph, in the graph's order, whose friendly
\* name is among the names given
CollectNodes(nodes, names) == SelectSeq(nodes, LAMBDA op : op.name \in Range(names))

\* the anchor count the loop of lines 113-122 uses for the node at position i
AnchorsFor(anchors, i) == anchors[i]

\* lines 102-110: collect, softmax over axis 1, the class count
DetCollect ==
    /\ pc = "branch"
    /\ method = "detclassprob"
    /\ cls_head_output_nodes' = CollectNodes(head_nodes, cls_head_output_node_names)
    /\ ori_consumers' = {[op |-> "softmax", of |-> cls_head_output_nodes'[i].name] :
                            i \in 1..Len(cls_head_output_nodes')}
    /\ IF cls_head_output_nodes' = <<>>
       THEN Raise("index") /\ num_cls_out_channels' = num_cls_out_channels
       ELSE /\ num_cls_out_channels' =
                  cls_head_output_nodes'[Len(cls_head_output_nodes')].shape[2]
                  \div num_anchors[Len(num_anchors)]
            /\ pc' = "det_anchor" /\ error' = error
    /\ scale_idx' = 1
    /\ UNCHANGED <<wbFrame, method, backbone_shape, logit_shape, ori_names, clone_names, chw,
                   mosaic_feature_map_mask, mi, mj, head_nodes, det_classes,
                   cls_head_output_node_names, num_anchors, saliency_map_size,
                   grouped, out_shape>>

\* lines 113-122: one scale of the anchor loop
DetAnchor ==
    /\ pc = "det_anchor"
    /\ scale_idx <= Len(cls_head_output_nodes)
    /\ LET node == cls_head_output_nodes[scale_idx]
           anchors == AnchorsFor(num_anchors, scale_idx)
           target == <<1, anchors, num_cls_out_channels, node.shape[3], node.shape[4]>>
       IN  /\ grouped' = Append(grouped, [node |-> node.name, anchors |-> anchors])
           /\ IF ReshapeFails(node.shape, target)
              THEN Raise("reshape") /\ UNCHANGED <<cls_head_output_nodes, scale_idx>>
              ELSE /\ cls_head_output_nodes' =
                         [cls_head_output_nodes EXCEPT ![scale_idx].shape =
                             ReduceShape(target, 1, FALSE)]
                   /\ scale_idx' = scale_idx + 1
                   /\ pc' = pc /\ error' = error
    /\ UNCHANGED <<wbFrame, method, backbone_shape, logit_shape, ori_names, ori_consumers,
                   clone_names, chw,
                   mosaic_feature_map_mask, mi, mj, head_nodes, det_classes,
                   cls_head_output_node_names, num_anchors, saliency_map_size,
                   num_cls_out_channels, out_shape>>

\* lines 125-133: interpolate every scale to the output size, concatenate and
\* average over the scales
DetScales ==
    /\ pc = "det_anchor"
    /\ scale_idx > Len(cls_head_output_nodes)
    /\ cls_head_output_nodes' =
          [i \in 1..Len(cls_head_output_nodes) |->
              [cls_head_output_nodes[i] EXCEPT !.shape =
                  <<1, num_cls_out_channels, saliency_map_size[1], saliency_map_size[2]>>]]
    /\ out_shape' = Some(ReduceShape(
          ConcatShape([i \in 1..Len(cls_head_output_nodes) |-> cls_head_output_nodes'[i].shape]),
          0, TRUE))
    /\ pc' = "done"
    /\ UNCHANGED <<wbFrame, error, method, backbone_shape, logit_shape, ori_names,
                   ori_consumers, clone_names,
                   chw, mosaic_feature_map_mask, mi, mj, head_nodes, det_classes,
                   cls_head_output_node_names, num_anchors, saliency_map_size,
                   num_cls_out_channels, scale_idx, grouped>>

\* the exception leaves generate_xai_branch: the branch nodes, which only the
\* call's locals hold, are destroyed, and with them the edges from the outputs
\* they read; what the call has set on the original graph's own nodes stays
Unwind ==
    /\ pc = "error"
    /\ method # ""
    /\ pc' = "raised"
    /\ ori_consumers' = {}
    /\ UNCHANGED <<wbFrame, error, method, backbone_shape, logit_shape, ori_names, clone_names,
                   chw, mosaic_feature_map_mask, mi, mj, head_nodes, det_classes,
                   cls_head_output_node_names, num_anchors, saliency_map_size,
                   cls_head_output_nodes, num_cls_out_channels, scale_idx, grouped, out_shape>>

WbNext ==
    \/ ActivationMap
    \/ RcClone
    \/ RcShape
    \/ RcMaskStep
    \/ RcBranch
    \/ DetCollect
    \/ DetAnchor
    \/ DetScales
    \/ Unwind

SpecWB == WbSpecInit /\ [][WbNext]_vars

\* -------------------------------------------------- the two normalisers
\* RISEExplainer._normalize_saliency_maps: one minimum and one maximum over the
\* whole tensor, no cast.  The result is kept exactly: a value is the numerator
\* 255 * (v - min) over the denominator max - min + 1e-12.
ExplainerNormalize(maps) ==
    LET flat == Flatten([t \in 1..Len(maps) |-> Flatten(maps[t])])
        lo == MinSeq(flat)
    IN  [t \in 1..Len(maps) |->
            [i \in 1..Rows(maps[t]) |-> [j \in 1..Cols(maps[t]) |->
                255 * (maps[t][i][j] - lo)]]]

\* max_values - min_values of RISEExplainer._normalize_saliency_maps
ExplainerNormDen(maps) ==
    LET flat == Flatten([t \in 1..Len(maps) |-> Flatten(maps[t])])
    IN  MaxSeq(flat) - MinSeq(flat)

\* the shape of the maps handed to the normalisers
NormShape == <<1, 2>>

NormInit ==
    /\ pc = "norm"
    /\ \E n \in 1..MaxMaps :
          norm_in \in [1..n -> [1..NormShape[1] -> [1..NormShape[2] -> 0..MaxPixel]]]
    /\ norm_rise = None /\ norm_expl = None
    /\ kind = "" /\ input_size = <<>> /\ num_cells = 0 /\ prob = 0 /\ seed = 0
    /\ rand_generator = 0 /\ masks = <<>>
    /\ RiseIdle /\ WbIdle /\ AutoIdle

\* saliency_maps = cls._normalize_saliency_maps(saliency_maps) of RISE.run
NormRise ==
    /\ pc = "norm"
    /\ IsNone(norm_rise)
    /\ norm_rise' = Some(RiseNormalize(norm_in))
    /\ UNCHANGED <<pc, maskVars, paramVars, riseVars, wbVars, norm_in, norm_expl, autoVars>>

\* sal_maps = self._normalize_saliency_maps(sal_maps) of RISEExplainer
NormExplainer ==
    /\ pc = "norm"
    /\ IsNone(norm_expl)
    /\ norm_expl' = Some(ExplainerNormalize(norm_in))
    /\ UNCHANGED <<pc, maskVars, paramVars, riseVars, wbVars, norm_in, norm_rise, autoVars>>

NormNext == NormRise \/ NormExplainer

SpecNorm == NormInit /\ [][NormNext]_vars

\* ------------------------------------- ClassificationAutoExplainer.explain
Groups == {"image", "predicted_classes"}

\* the explain_method objects a model made by the library may carry
ExplainMethods ==
    {[supported_target_explain_groups |-> {g}, default_target_explain_group |-> g] :
        g \in Groups}

\* Explainer._get_target_explain_group raises: the assert of line 37, or the
\* ValueError of line 44
GroupRaises(group, em) ==
    IF ~IsNone(group)
    THEN ~IsNone(em) /\ Get(group) \notin Get(em).supported_target_explain_groups
    ELSE IsNone(em)

GroupError(group) == IF ~IsNone(group) THEN "AssertionError" ELSE "ValueError"

\* Explainer._get_target_explain_group, when it returns
get_target_explain_group(group, em) ==
    IF ~IsNone(group) THEN Get(group) ELSE Get(em).default_target_explain_group

\* rand_generator = np.random.default_rng(seed=42)
ExplainerSeed == 42

AutoInit ==
    /\ pc = "explain"
    /\ has_xai \in BOOLEAN
    /\ explain_method \in {None} \cup {Some(m) : m \in ExplainMethods}
    /\ insert_ok \in BOOLEAN
    /\ target_explain_group \in {None} \cup {Some(g) : g \in Groups}
    /\ result = None
    /\ kind = "linear"
    /\ input_size \in Sizes
    /\ num_cells \in 1..MaxCells
    /\ prob = DefaultProb
    /\ seed = ExplainerSeed
    /\ rand_generator = 0
    /\ masks = <<>>
    /\ target_classes = None /\ normalize = TRUE
    /\ num_masks \in 1..MaxMasks
    /\ model_classes \in 1..MaxClasses
    /\ num_classes = 0 /\ num_targets = 0
    /\ sal_maps = <<>> /\ sal_maps_tmp = <<>> /\ mask = <<>> /\ raw_scores = <<>>
    /\ sal = <<>> /\ iter = 0 /\ saliency_maps = None /\ error = ""
    /\ mismatch = FALSE /\ log = <<>>
    /\ WbIdle /\ NormIdle

autoFrame == <<wbVars, normVars, paramVars, num_classes, num_targets, sal_maps_tmp,
               mismatch, insert_ok, target_explain_group>>

\* line 222: if XAIModel.has_xai(...)
AutoDispatch ==
    /\ pc = "explain"
    /\ pc' = IF has_xai THEN "wb_given" ELSE "insert"
    /\ log' = Append(log, IF has_xai THEN "has_xai" ELSE "no_xai")
    /\ UNCHANGED <<autoFrame, maskVars, sal_maps, mask, raw_scores, sal, iter, saliency_maps,
                   error, has_xai, explain_method, result>>

\* line 224: WhiteBoxExplainer(self._model).explain(data, target_explain_group)
WhiteBoxGiven ==
    /\ pc = "wb_given"
    /\ IF GroupRaises(target_explain_group, explain_method)
       THEN Raise(GroupError(target_explain_group)) /\ result' = result
       ELSE /\ result' = Some([by |-> "whitebox",
                               group |-> get_target_explain_group(target_explain_group,
                                                                  explain_method)])
            /\ pc' = "done" /\ error' = error
    /\ UNCHANGED <<autoFrame, maskVars, sal_maps, mask, raw_scores, sal, iter, saliency_maps,
                   has_xai, explain_method, log>>

\* line 78 under line 224: the model's inference raises, nothing catches it
WhiteBoxGivenFails ==
    /\ pc = "wb_given"
    /\ Raise("inference")
    /\ UNCHANGED <<autoFrame, maskVars, sal_maps, mask, raw_scores, sal, iter, saliency_maps,
                   has_xai, explain_method, result, log>>

\* line 229: self._model = XAIClassificationModel.insert_xai(...), or the
\* except of line 232
InsertXai ==
    /\ pc = "insert"
    /\ IF insert_ok
       THEN /\ \E m \in ExplainMethods : explain_method' = Some(m)
            /\ has_xai' = TRUE
            /\ pc' = "wb_inserted"
            /\ log' = Append(log, "inserted")
       ELSE /\ pc' = "rise"
            /\ log' = Append(log, "insert_failed")
            /\ UNCHANGED <<explain_method, has_xai>>
    /\ UNCHANGED <<autoFrame, maskVars, sal_maps, mask, raw_scores, sal, iter, saliency_maps,
                   error, result>>

\* line 230: WhiteBoxExplainer(self._model).explain(data)
WhiteBoxInserted ==
    /\ pc = "wb_inserted"
    /\ IF GroupRaises(None, explain_method)
       THEN pc' = "rise" /\ log' = Append(log, "whitebox_failed") /\ result' = result
       ELSE /\ result' = Some([by |-> "whitebox",
                               group |-> get_target_explain_group(None, explain_method)])
            /\ pc' = "done" /\ log' = log
    /\ UNCHANGED <<autoFrame, maskVars, sal_maps, mask, raw_scores, sal, iter, saliency_maps,
                   error, has_xai, explain_method>>

\* line 78 under line 230: the inference raises and line 232 catches it
WhiteBoxInsertedFails ==
    /\ pc = "wb_inserted"
    /\ pc' = "rise"
    /\ log' = Append(log, "whitebox_failed")
    /\ UNCHANGED <<autoFrame, maskVars, sal_maps, mask, raw_scores, sal, iter, saliency_maps,
                   error, has_xai, explain_method, result>>

\* line 235, RISEExplainer(self._model), and lines 140-146 of
\* _generate_saliency_map
RxStart ==
    /\ pc = "rise"
    /\ rand_generator' = default_rng(seed)
    /\ sal_maps' = <<>>
    /\ iter' = 0
    /\ pc' = "rx_loop"
    /\ UNCHANGED <<autoFrame, kind, input_size, num_cells, prob, seed, masks, mask, raw_scores,
                   sal, saliency_maps, error, has_xai, explain_method, result, log>>

\* lines 148-150: the mask, and the masked input; the resized input has
\* input_size[1] rows and input_size[0] columns (cv2.resize takes width first)
RxMask ==
    /\ pc = "rx_loop"
    /\ iter < num_masks
    /\ mask' = GenerateMask(kind, rand_generator, input_size, num_cells, prob)
    /\ rand_generator' = RngAfter(rand_generator, DrawsPerMask(num_cells))
    /\ masks' = Append(masks, mask')
    /\ IF BroadcastDim(Rows(mask'), input_size[2]) /\ BroadcastDim(Cols(mask'), input_size[1])
       THEN pc' = "rx_infer" /\ error' = error
       ELSE Raise("broadcast")
    /\ UNCHANGED <<autoFrame, kind, input_size, num_cells, prob, seed, sal_maps, raw_scores,
                   sal, iter, saliency_maps, has_xai, explain_method, result, log>>

\* lines 151-153: scores, sal, sal_maps.append(sal)
RxInfer ==
    /\ pc = "rx_infer"
    /\ raw_scores' = ScoreVector(model_classes, iter)
    /\ sal' = ScoresTimesMask(raw_scores', mask)
    /\ sal_maps' = Append(sal_maps, sal')
    /\ iter' = iter + 1
    /\ pc' = "rx_loop"
    /\ UNCHANGED <<autoFrame, maskVars, mask, saliency_maps, error, has_xai, explain_method,
                   result, log>>

\* the model's inference raises inside RISEExplainer.explain
RxInferFails ==
    /\ pc \in {"rx_infer", "rx_predict"}
    /\ Raise("inference")
    /\ UNCHANGED <<autoFrame, maskVars, sal_maps, mask, raw_scores, sal, iter, saliency_maps,
                   has_xai, explain_method, result, log>>

RECURSIVE SumTensors(_)
\* np.sum(sal_maps, axis=0) of tensors of one shape
SumTensors(list) ==
    IF Len(list) = 1 THEN list[1]
    ELSE LET rest == SumTensors(Tail(list))
         IN  [t \in 1..Len(rest) |-> [i \in 1..Rows(rest[t]) |-> [j \in 1..Cols(rest[t]) |->
                 list[1][t][i][j] + rest[t][i][j]]]]

\* whether the tensors of a list differ in shape (np.sum refuses a ragged list)
Ragged(list) ==
    \E a, b \in 1..Len(list) :
        Rows(list[a][1]) # Rows(list[b][1]) \/ Cols(list[a][1]) # Cols(list[b][1])

\* lines 154-158: the sum, the normalisation, the batch dimension
RxSum ==
    /\ pc = "rx_loop"
    /\ iter = num_masks
    /\ IF Ragged(sal_maps)
       THEN Raise("ragged") /\ saliency_maps' = saliency_maps
       ELSE /\ saliency_maps' = Some(<<ExplainerNormalize(SumTensors(sal_maps))>>)
            /\ pc' = "rx_predict" /\ error' = error
    /\ UNCHANGED <<autoFrame, maskVars, sal_maps, mask, raw_scores, sal, iter,
                   has_xai, explain_method, result, log>>

\* lines 121-132: the prediction, then _get_target_explain_group(None)
RxExplain ==
    /\ pc = "rx_predict"
    /\ IF GroupRaises(None, explain_method)
       THEN Raise(GroupError(None)) /\ result' = result
       ELSE /\ result' = Some([by |-> "rise",
                               group |-> get_target_explain_group(None, explain_method)])
            /\ pc' = "done" /\ error' = error
    /\ UNCHANGED <<autoFrame, maskVars, sal_maps, mask, raw_scores, sal, iter, saliency_maps,
                   has_xai, explain_method, log>>

AutoNext ==
    \/ AutoDispatch
    \/ WhiteBoxGiven
    \/ WhiteBoxGivenFails
    \/ InsertXai
    \/ WhiteBoxInserted
    \/ WhiteBoxInsertedFails
    \/ RxStart
    \/ RxMask
    \/ RxInfer
    \/ RxInferFails
    \/ RxSum
    \/ RxExplain

SpecAuto == AutoInit /\ [][AutoNext]_vars

\* ================================================================ claims

\* ---- RISE.run (Spec)

\* C1: when target_classes is given, the un-normalised result of
\* _run_synchronous_explanation has num_classes maps of the input size; the
\* map of class target_classes[t] is the accumulated map of target t, and the
\* map of every class that is not a target is zero.
C1_SparseReconstruction ==
    (pc = "returned" /\ ~IsNone(target_classes)) =>
        LET targets == Get(target_classes)
        IN  /\ Len(sal_maps) = num_classes
            /\ \A c \in 1..Len(sal_maps) :
                  Rows(sal_maps[c]) = input_size[1] /\ Cols(sal_maps[c]) = input_size[2]
            /\ \A t \in 1..Len(targets) : sal_maps[targets[t]] = sal_maps_tmp[t]
            /\ \A c \in 1..Len(sal_maps) :
                  c \notin Range(targets) => sal_maps[c] = Zeros(input_size[1], input_size[2])

\* two targets given out of order, a class left out, and maps that differ
C1_Witness ==
    /\ pc = "returned"
    /\ target_classes = Some(<<3, 1>>)
    /\ num_classes = 3
    /\ iter = 2
    /\ ~mismatch
    /\ sal_maps[3] # sal_maps[1]
    /\ sal_maps[1] # Zeros(input_size[1], input_size[2])

\* C2: the contribution of a sampling iteration has num_targets maps
\* (len(target_classes) when target_classes is not None, the empty list
\* included, num_classes otherwise), map t being the score of target t times
\* the mask, and the accumulator keeps num_targets maps of the input size.
C2_ContributionRows ==
    /\ (pc = "accum" /\ ~mismatch) =>
          /\ num_targets = IF IsNone(target_classes) THEN num_classes
                           ELSE Len(Get(target_classes))
          /\ Len(sal) = num_targets
          /\ \A t \in 1..Len(sal) :
                sal[t] = [i \in 1..Rows(mask) |-> [j \in 1..Cols(mask) |->
                            mask[i][j] * raw_scores[IF IsNone(target_classes) THEN t
                                                    ELSE Get(target_classes)[t]]]]
    /\ pc \in {"loop", "infer", "score", "accum"} =>
          /\ Len(sal_maps) = num_targets
          /\ \A t \in 1..Len(sal_maps) :
                Rows(sal_maps[t]) = input_size[1] /\ Cols(sal_maps[t]) = input_size[2]

\* the empty target list: no target, yet the contribution has a map per class
C2_Witness ==
    /\ pc = "accum"
    /\ ~mismatch
    /\ target_classes = Some(<<>>)
    /\ num_targets = 0
    /\ num_classes = 2
    /\ Len(sal) = 2

\* C3: a run in which a sampling call returned a score vector of another
\* length than the discovery call returns no saliency tensor.
C3_MismatchFails == mismatch => IsNone(saliency_maps)

\* a run that returned a tensor although a sampling call returned a vector of
\* another length than the discovery call
C3_Witness ==
    /\ pc = "done"
    /\ mismatch
    /\ ~IsNone(saliency_maps)

RECURSIVE Repeat(_, _)
Repeat(s, n) == IF n = 0 THEN <<>> ELSE s \o Repeat(s, n - 1)

\* the steps of a run that completes
ExpectedLog ==
    <<"preprocess", "infer">> \o Repeat(<<"mask", "infer", "accum">>, num_masks)
    \o (IF IsNone(target_classes) THEN <<>> ELSE <<"reconstruct">>)
    \o (IF normalize THEN <<"normalize">> ELSE <<>>)
    \o <<"expand">>

\* C10: a run takes its steps in the fixed order (preprocess once, the discovery
\* inference, num_masks times mask, inference, accumulation, the reconstruction
\* iff targets are given, the normalisation iff normalize, the batch dimension),
\* with num_masks + 1 inferences, and does not stop short of Done unless an
\* inference call fails or returns a vector of another length.
C10_RunOrder ==
    /\ pc = "done" => log = ExpectedLog
    /\ (pc = "error" /\ ~mismatch) => error = "inference"

\* a run stopped in the accumulation although every inference returned a
\* vector of the length of the discovery call
C10_Witness ==
    /\ pc = "error"
    /\ error = "broadcast"
    /\ ~mismatch
    /\ target_classes = Some(<<>>)
    /\ log = <<"preprocess", "infer", "mask", "infer">>

\* ---- the mask generator (SpecMask)

C4_MosaicBijection ==
    (pc = "done" /\ method = "reciprocam") =>
        LET c == Get(chw)[1]
            h == Get(chw)[2]
            w == Get(chw)[3]
            m == mosaic_feature_map_mask
        IN  /\ backbone_shape = <<1, c, h, w>>
            /\ Len(m) = h * w
            /\ \A k \in 1..Len(m) :
                  /\ Len(m[k]) = c
                  /\ \A ch \in 1..c :
                        /\ Rows(m[k][ch]) = h /\ Cols(m[k][ch]) = w
                        /\ \A i \in 1..h, j \in 1..w :
                              m[k][ch][i][j] = IF k - 1 = (i - 1) * w + (j - 1) THEN 1 ELSE 0
            /\ \A i \in 1..h, j \in 1..w :
                  Cardinality({k \in 1..Len(m) : m[k][1][i][j] # 0}) = 1

C4_Witness ==
    /\ pc = "done"
    /\ method = "reciprocam"
    /\ chw = Some(<<2, 2, 2>>)
    /\ mosaic_feature_map_mask[2][2][1][2] = 1

NodeShape(name) == (CHOOSE g \in Range(head_nodes) : g.name = name).shape

\* C6: the node named cls_head_output_node_names[s] is the one grouped with
\* num_anchors[s], whatever the graph's op order, and num_classes is the
\* channel count of the node named last over the last anchor count.
C6_ScaleOrderPreserved ==
    method = "detclassprob" =>
        /\ \A s \in 1..Len(grouped) :
              /\ grouped[s].node = cls_head_output_node_names[s]
              /\ grouped[s].anchors = num_anchors[s]
        /\ pc \in {"det_anchor", "done"} =>
              num_cls_out_channels
                = NodeShape(cls_head_output_node_names[Len(cls_head_output_node_names)])[2]
                  \div num_anchors[Len(num_anchors)]

\* names given against the graph's order, every node with its own anchor
\* count times num_classes channels: the node named second is grouped with the
\* anchor count given first, and the reshape of line 116 fails
C6_Witness ==
    /\ pc = "error"
    /\ error = "reshape"
    /\ method = "detclassprob"
    /\ cls_head_output_node_names = <<2, 1>>
    /\ num_anchors = <<2, 1>>
    /\ \A s \in 1..2 :
          NodeShape(cls_head_output_node_names[s])[2] = num_anchors[s] * det_classes
    /\ grouped = <<[node |-> 1, anchors |-> 2]>>

\* ---- the normalisers (SpecNorm)

IsFlat(m) == MinSeq(Flatten(m)) = MaxSeq(Flatten(m))

\* C8: both normalisers scale every target map by its own minimum and maximum:
\* every value lies in [0, 255], the minimum of every map that is not flat
\* becomes 0 whatever the other maps hold, and a flat map becomes the constant 0.
C8_PerMapScaling ==
    /\ ~IsNone(norm_rise) =>
          \A t \in 1..Len(norm_in) :
             LET out == Flatten(Get(norm_rise)[t])
             IN  /\ \A n \in 1..Len(out) : out[n] >= 0 /\ out[n] <= 255
                 /\ MinSeq(out) = 0
                 /\ IsFlat(norm_in[t]) => MaxSeq(out) = 0
    /\ ~IsNone(norm_expl) =>
          \A t \in 1..Len(norm_in) :
             LET out == Flatten(Get(norm_expl)[t])
             IN  /\ \A n \in 1..Len(out) :
                       out[n] >= 0 /\ out[n] <= 255 * ExplainerNormDen(norm_in)
                 /\ MinSeq(out) = 0
                 /\ IsFlat(norm_in[t]) => MaxSeq(out) = 0

\* two maps of different levels: the lower bound of the second is not 0 after
\* RISEExplainer._normalize_saliency_maps, and is 0 after RISE's
C8_Witness ==
    /\ norm_in = <<(<<(<<0, 1>>)>>), (<<(<<2, 3>>)>>)>>
    /\ ~IsNone(norm_rise)
    /\ ~IsNone(norm_expl)
    /\ MinSeq(Flatten(Get(norm_rise)[2])) = 0
    /\ MinSeq(Flatten(Get(norm_expl)[2])) > 0

\* ---- the auto explainer (SpecAuto)

InLog(what) == \E n \in 1..Len(log) : log[n] = what

\* C9: explain returns the explanation of exactly one of three paths: the
\* white-box one when the model has an XAI branch, the white-box one on the
\* augmented model when the insertion succeeds, and the RISE one when the
\* attempt raises; on that third path the call does not end in an error (other
\* than one of the model's inference or of the mask arithmetic).
C9_ThreePaths ==
    /\ pc = "done" =>
          Get(result).by = IF InLog("insert_failed") \/ InLog("whitebox_failed")
                           THEN "rise" ELSE "whitebox"
    /\ (pc = "error" /\ (InLog("insert_failed") \/ InLog("whitebox_failed"))) =>
          error \in {"inference", "broadcast", "ragged"}

\* the insertion failed, RISE ran to its end, and the call ended in the
\* ValueError of _get_target_explain_group
C9_Witness ==
    /\ pc = "error"
    /\ error = "ValueError"
    /\ ~has_xai
    /\ IsNone(explain_method)
    /\ InLog("insert_failed")
    /\ ~IsNone(saliency_maps)

\* ---- the crop window of the mask generator (SpecMask)

\* the generator state on which call n of the mask generator starts
StateBeforeCall(n) == RngAfter(default_rng(seed), (n - 1) * DrawsPerMask(num_cells))

\* C11: for every input size (non-square ones included), every num_cells and
\* every pair of drawn shifts x < cell_h, y < cell_w, the crop window
\* [x, x+H) x [y, y+W) lies inside the upsampled grid, so that the mask
\* returned has exactly H rows of W values, all of them in [0, 1].
C11_CropInside ==
    \A n \in 1..Len(masks) :
        LET g == StateBeforeCall(n)
            x == ShiftX(g, input_size, num_cells)
            y == ShiftY(g, input_size, num_cells)
            up == Upsampled(kind, g, input_size, num_cells, prob)
        IN  /\ x >= 0 /\ x < CellSize(input_size, num_cells)[1]
            /\ y >= 0 /\ y < CellSize(input_size, num_cells)[2]
            /\ x + input_size[1] <= Rows(up)
            /\ y + input_size[2] <= Cols(up)
            /\ Len(masks[n]) = input_size[1]
            /\ \A r \in 1..Len(masks[n]) :
                  /\ Len(masks[n][r]) = input_size[2]
                  /\ \A c \in 1..Len(masks[n][r]) :
                        masks[n][r][c] >= 0 /\ masks[n][r][c] <= MaskQ

\* a 1 x 2 input, one cell, the shift y = 1 drawn: the upsampled grid has 4 rows
\* of 2 columns, and the mask returned has one column instead of two
C11_Witness ==
    /\ Len(masks) >= 1
    /\ input_size = <<1, 2>>
    /\ num_cells = 1
    /\ ShiftY(StateBeforeCall(1), input_size, num_cells) = 1
    /\ Rows(Upsampled(kind, StateBeforeCall(1), input_size, num_cells, prob)) = 4
    /\ Cols(Upsampled(kind, StateBeforeCall(1), input_size, num_cells, prob)) = 2
    /\ Len(masks[1]) = 1
    /\ Len(masks[1][1]) = 1

\* ---- a synthesizer that raises (SpecWB)

\* C12: when generate_xai_branch of Recipro-CAM or DetClassProbabilityMap has
\* raised, the original graph is as it was before the call: its friendly names
\* are those it had, and no branch node reads one of its outputs.
C12_GraphUntouched ==
    (pc = "raised" /\ method \in {"reciprocam", "detclassprob"}) =>
        /\ ori_names = [data |-> "data_ori", logits |-> "logits"]
        /\ ori_consumers = {}

\* Recipro-CAM on a backbone of dynamic height and width: get_length has
\* raised, and the original logit node keeps the name set before
C12_Witness ==
    /\ pc = "raised"
    /\ method = "reciprocam"
    /\ error = "dynamic"
    /\ backbone_shape = <<1, 1, Dyn, Dyn>>
    /\ ori_names.logits = "logits_ori"
    /\ IsNone(out_shape)

====
